---- MODULE Spec2Model ----
(***************************************************************************)
(* log-metrics.js: one pass over a log file, folding every line into the   *)
(* `metrics` accumulator, then calculateMetrics and the output stage.      *)
(*                                                                         *)
(* A timestamp string "YYYY-MM-DD HH:MM:SS" is modelled by its number of   *)
(* seconds: substring(0, 16) is the minute (t \div 60), new Date(t) is the *)
(* number of milliseconds (t * 1000), and the lexicographic order of the   *)
(* fixed-width strings is the numeric order.                               *)
(* An optional value (a regex match that may be null, a field that may be  *)
(* undefined) is the empty tuple or a one-element tuple.                   *)
(***************************************************************************)
EXTENDS Integers, Sequences, FiniteSets, TLC

VARIABLES args, outputFormat, current, metrics, pc, finalMetrics, written, stderr,
          exitCode, fileRead

vars == <<args, outputFormat, current, metrics, pc, finalMetrics, written, stderr,
          exitCode, fileRead>>

\* Longest input file explored, in lines.
MaxLines == 3

None == <<>>
Some(x) == <<x>>

Max(a, b) == IF a >= b THEN a ELSE b
Min(a, b) == IF a <= b THEN a ELSE b

-----------------------------------------------------------------------------
(* The command line.                                                       *)

\* What follows the log file on the command line.
ArgTails ==
    { <<>>,
      <<"--output", "json">>, <<"--output", "html">>,
      <<"--output", "console">>, <<"--output", "all">>,
      <<"--output", "xml">> }

Includes(a, x) == \E i \in 1..Len(a) : a[i] = x
IndexOf(a, x) == CHOOSE i \in 1..Len(a) : a[i] = x /\ \A j \in 1..(i - 1) : a[j] # x

OutputFormat(a) ==
    IF Includes(a, "--output") THEN a[IndexOf(a, "--output") + 1] ELSE "all"

-----------------------------------------------------------------------------
(* Lines.  A line is what the seven patterns capture from it:              *)
(*   ts    timestampRegex, the first timestamp of the line;                *)
(*   lvl   logLevelRegex, a timestamp followed by "<word>:";               *)
(*   job   jobCompletedRegex; msg messageCompletedRegex;                   *)
(*   store storeSuccessRegex; cache cacheHitRegex;                         *)
(* and `format`, what the text is: free text, a JSON envelope (with the    *)
(* envelope's level), or text that starts like JSON and does not parse.    *)
(* The program applies the patterns to the raw text whatever the format.   *)

toLowerCase(s) ==
    CASE s = "INFO" -> "info"
      [] s = "ERROR" -> "error"
      [] OTHER -> s

substring16(timestamp) == timestamp \div 60

Date(timestamp) == timestamp * 1000

Line(fmt, env, ts, lvl, job, msg, store, cache) ==
    [format |-> fmt, envelope |-> env, ts |-> ts, lvl |-> lvl,
     job |-> job, msg |-> msg, store |-> store, cache |-> cache]

Lvl(t, l) == Some([timestamp |-> t, level |-> l])
Msg(w, a, m) == Some([wabaNumber |-> w, wamid |-> a, msgId |-> m])

\* A line "<timestamp> <level>: <text>": both timestamp patterns capture t.
Levelled(t, l, job, msg, store, cache) ==
    Line("text", None, Some(t), Lvl(t, l), job, msg, store, cache)

\* A line "<timestamp> <text>" with no "<word>:" after the timestamp.
Stamped(t, job, msg, store, cache) ==
    Line("text", None, Some(t), None, job, msg, store, cache)

\* A line with no timestamp at all.
Bare(job, msg, store, cache) ==
    Line("text", None, None, None, job, msg, store, cache)

\* A JSON envelope {"level": l, "message": ..., "@timestamp": <ISO 8601>,
\* "logger_name": ...}: the ISO timestamp has a "T" where the patterns want a
\* space, so no pattern matches.
JsonEnvelope(l) == Line("json", Some(l), None, None, None, None, None, None)

MalformedJson == Line("badjson", None, None, None, None, None, None, None)

LogLines ==
    { Levelled(0, "INFO", None, None, None, None),
      Levelled(60, "ERROR", None, None, None, None),
      Levelled(0, "warn", None, None, None, None),
      Bare(None, None, None, None) }

MessageLines ==
    { Levelled(0, "INFO", None, Msg("111", "a", "M1"), None, None),
      Levelled(30, "INFO", None, Msg("111", "a", "M2"), None, None),
      Levelled(60, "INFO", None, Msg("222", "b", "M1"), None, None),
      Stamped(60, None, Msg("111", "a", "M1"), None, None),
      Levelled(0, "INFO", None, Msg("222", "a", "M1"), None, None),
      Bare(None, Msg("222", "b", "M2"), None, None) }

StoreLines ==
    { Levelled(0, "INFO", None, None, Msg("111", "a", "M1"), None),
      Levelled(60, "INFO", None, None, Msg("111", "a", "M1"), None),
      Levelled(60, "INFO", None, None, Msg("222", "b", "M1"), None),
      Levelled(30, "INFO", None, None, Msg("111", "a", "M2"), None),
      Stamped(60, None, None, Msg("111", "a", "M1"), None),
      Bare(None, None, Msg("111", "a", "M1"), None) }

OtherLines ==
    { Levelled(0, "INFO", Some("7"), None, None, None),
      Levelled(60, "INFO", None, None, None, Some("333")),
      Levelled(0, "INFO", None, None, None, Some("111")),
      Stamped(0, Some("7"), Msg("111", "a", "M1"), Msg("111", "a", "M1"), Some("111")) }

JsonLines == { MalformedJson, JsonEnvelope("error") }

Lines == LogLines \cup MessageLines \cup StoreLines \cup OtherLines \cup JsonLines

-----------------------------------------------------------------------------
(* The accumulator.  A JavaScript object used as a map is a function whose *)
(* domain is the set of keys present.                                      *)

EmptyMap == [k \in {} |-> 0]

Has(map, k) == k \in DOMAIN map

Put(map, k, v) == [x \in (DOMAIN map) \cup {k} |-> IF x = k THEN v ELSE map[x]]

Delete(map, k) == [x \in (DOMAIN map) \ {k} |-> map[x]]

InitialMetrics ==
    [startTime |-> None, endTime |-> None,
     completedJobs |-> 0, cacheHits |-> 0, messagesSent |-> 0, storeOperations |-> 0,
     errors |-> <<>>, warnings |-> <<>>,
     logLevels |-> EmptyMap,
     uniqueWabaNumbers |-> {}, messageIds |-> {}, wamids |-> {}, jobIds |-> {},
     wabaMessageMap |-> EmptyMap,
     timeIntervals |-> EmptyMap,
     processingTimes |-> <<>>,
     messagesToStore |-> EmptyMap]

NewInterval == [messages |-> 0, cacheHits |-> 0, jobs |-> 0, stores |-> 0]

\* The "Update time interval metrics" block of the four event branches: the
\* bucket of the line's first timestamp is counted only if it already exists.
BumpInterval(intervals, line, field) ==
    IF line.ts = None THEN intervals
    ELSE LET timeKey == substring16(line.ts[1])
         IN IF Has(intervals, timeKey)
            THEN [intervals EXCEPT ![timeKey][field] = @ + 1]
            ELSE intervals

LogLevelBranch(m, line) ==
    IF line.lvl = None THEN m
    ELSE LET timestamp == line.lvl[1].timestamp
             level == toLowerCase(line.lvl[1].level)
             logTime == Date(timestamp)
             timeKey == substring16(timestamp)
         IN [m EXCEPT
              !.logLevels = Put(@, level, (IF Has(@, level) THEN @[level] ELSE 0) + 1),
              !.startTime = IF @ = None \/ logTime < @[1] THEN Some(logTime) ELSE @,
              !.endTime = IF @ = None \/ logTime > @[1] THEN Some(logTime) ELSE @,
              !.timeIntervals = IF Has(@, timeKey) THEN @ ELSE Put(@, timeKey, NewInterval),
              !.errors = IF level = "error"
                         THEN Append(@, [timestamp |-> timestamp, message |-> line])
                         ELSE @,
              !.warnings = IF level = "warn"
                           THEN Append(@, [timestamp |-> timestamp, message |-> line])
                           ELSE @]

JobBranch(m, line) ==
    IF line.job = None THEN m
    ELSE [m EXCEPT
           !.completedJobs = @ + 1,
           !.jobIds = @ \cup {line.job[1]},
           !.timeIntervals = BumpInterval(@, line, "jobs")]

NewWaba == [messageIds |-> {}, wamids |-> {}, count |-> 0]

\* Faulty variant of MessageBranch: the per-WABA count is set when the entry
\* is created and never incremented afterwards.
MessageBranchCountsOnce(m, line) ==
    IF line.msg = None THEN m
    ELSE LET wabaNumber == line.msg[1].wabaNumber
             wamid == line.msg[1].wamid
             msgId == line.msg[1].msgId
             entry == IF Has(m.wabaMessageMap, wabaNumber)
                      THEN m.wabaMessageMap[wabaNumber]
                      ELSE [messageIds |-> {}, wamids |-> {}, count |-> 1]
         IN [m EXCEPT
              !.messagesSent = @ + 1,
              !.uniqueWabaNumbers = @ \cup {wabaNumber},
              !.wamids = @ \cup {wamid},
              !.messageIds = @ \cup {msgId},
              !.wabaMessageMap =
                  Put(@, wabaNumber,
                      [messageIds |-> entry.messageIds \cup {msgId},
                       wamids |-> entry.wamids \cup {wamid},
                       count |-> entry.count]),
              !.messagesToStore =
                  Put(@, wamid,
                      [wabaNumber |-> wabaNumber, msgId |-> msgId, sentTimestamp |-> line.ts]),
              !.timeIntervals = BumpInterval(@, line, "messages")]

\* Faulty variant of MessageBranch: a pending entry that already exists for the
\* transport id is kept instead of being overwritten.
MessageBranchKeepsFirstSend(m, line) ==
    IF line.msg = None THEN m
    ELSE LET wabaNumber == line.msg[1].wabaNumber
             wamid == line.msg[1].wamid
             msgId == line.msg[1].msgId
             entry == IF Has(m.wabaMessageMap, wabaNumber)
                      THEN m.wabaMessageMap[wabaNumber] ELSE NewWaba
         IN [m EXCEPT
              !.messagesSent = @ + 1,
              !.uniqueWabaNumbers = @ \cup {wabaNumber},
              !.wamids = @ \cup {wamid},
              !.messageIds = @ \cup {msgId},
              !.wabaMessageMap =
                  Put(@, wabaNumber,
                      [messageIds |-> entry.messageIds \cup {msgId},
                       wamids |-> entry.wamids \cup {wamid},
                       count |-> entry.count + 1]),
              !.messagesToStore =
                  IF Has(@, wamid) THEN @
                  ELSE Put(@, wamid,
                           [wabaNumber |-> wabaNumber, msgId |-> msgId,
                            sentTimestamp |-> line.ts]),
              !.timeIntervals = BumpInterval(@, line, "messages")]

\* Faulty variant of MessageBranch: the transport id is tracked as pending but
\* not added to the wamids set.
MessageBranchForgetsWamid(m, line) ==
    IF line.msg = None THEN m
    ELSE LET wabaNumber == line.msg[1].wabaNumber
             wamid == line.msg[1].wamid
             msgId == line.msg[1].msgId
             entry == IF Has(m.wabaMessageMap, wabaNumber)
                      THEN m.wabaMessageMap[wabaNumber] ELSE NewWaba
         IN [m EXCEPT
              !.messagesSent = @ + 1,
              !.uniqueWabaNumbers = @ \cup {wabaNumber},
              !.messageIds = @ \cup {msgId},
              !.wabaMessageMap =
                  Put(@, wabaNumber,
                      [messageIds |-> entry.messageIds \cup {msgId},
                       wamids |-> entry.wamids \cup {wamid},
                       count |-> entry.count + 1]),
              !.messagesToStore =
                  Put(@, wamid,
                      [wabaNumber |-> wabaNumber, msgId |-> msgId, sentTimestamp |-> line.ts]),
              !.timeIntervals = BumpInterval(@, line, "messages")]

MessageBranch(m, line) ==
    IF line.msg = None THEN m
    ELSE LET wabaNumber == line.msg[1].wabaNumber
             wamid == line.msg[1].wamid
             msgId == line.msg[1].msgId
             entry == IF Has(m.wabaMessageMap, wabaNumber)
                      THEN m.wabaMessageMap[wabaNumber] ELSE NewWaba
         IN [m EXCEPT
              !.messagesSent = @ + 1,
              !.uniqueWabaNumbers = @ \cup {wabaNumber},
              !.wamids = @ \cup {wamid},
              !.messageIds = @ \cup {msgId},
              !.wabaMessageMap =
                  Put(@, wabaNumber,
                      [messageIds |-> entry.messageIds \cup {msgId},
                       wamids |-> entry.wamids \cup {wamid},
                       count |-> entry.count + 1]),
              !.messagesToStore =
                  Put(@, wamid,
                      [wabaNumber |-> wabaNumber, msgId |-> msgId, sentTimestamp |-> line.ts]),
              !.timeIntervals = BumpInterval(@, line, "messages")]

\* Faulty variant of StoreBranch: the matched pending entry is not deleted.
StoreBranchKeepsPending(m, line) ==
    IF line.store = None THEN m
    ELSE LET wabaNumber == line.store[1].wabaNumber
             wamid == line.store[1].wamid
             msgId == line.store[1].msgId
             pending == Has(m.messagesToStore, wamid)
             sentTime == m.messagesToStore[wamid].sentTimestamp
             storeTime == line.ts
         IN [m EXCEPT
              !.storeOperations = @ + 1,
              !.processingTimes =
                  IF pending /\ sentTime # None /\ storeTime # None
                  THEN Append(@, [wamid |-> wamid, msgId |-> msgId, wabaNumber |-> wabaNumber,
                                  processingTimeMs |-> Date(storeTime[1]) - Date(sentTime[1])])
                  ELSE @,
              !.timeIntervals = BumpInterval(@, line, "stores")]

StoreBranch(m, line) ==
    IF line.store = None THEN m
    ELSE LET wabaNumber == line.store[1].wabaNumber
             wamid == line.store[1].wamid
             msgId == line.store[1].msgId
             pending == Has(m.messagesToStore, wamid)
             sentTime == m.messagesToStore[wamid].sentTimestamp
             storeTime == line.ts
         IN [m EXCEPT
              !.storeOperations = @ + 1,
              !.processingTimes =
                  IF pending /\ sentTime # None /\ storeTime # None
                  THEN Append(@, [wamid |-> wamid, msgId |-> msgId, wabaNumber |-> wabaNumber,
                                  processingTimeMs |-> Date(storeTime[1]) - Date(sentTime[1])])
                  ELSE @,
              !.messagesToStore = IF pending THEN Delete(@, wamid) ELSE @,
              !.timeIntervals = BumpInterval(@, line, "stores")]

CacheBranch(m, line) ==
    IF line.cache = None THEN m
    ELSE [m EXCEPT
           !.cacheHits = @ + 1,
           !.uniqueWabaNumbers = @ \cup {line.cache[1]},
           !.timeIntervals = BumpInterval(@, line, "cacheHits")]

\* The body of the `for await` loop: the five branches, in the order of the code.
FoldLine(m, line) ==
    CacheBranch(StoreBranch(MessageBranch(JobBranch(LogLevelBranch(m, line), line), line), line), line)

-----------------------------------------------------------------------------
(* calculateMetrics.  A JavaScript number that reaches the report through  *)
(* toFixed(d) is <<"num", n>> with n the value in units of 10^-d, or       *)
(* <<"NaN">>, <<"Infinity">>, <<"-Infinity">>.                             *)

\* 2^53 - 1 in the source; the model's integers are narrower and every
\* processing time of the model is far below either value.
MAX_SAFE_INTEGER == 2147483647

Abs(x) == IF x < 0 THEN -x ELSE x

\* (a / b).toFixed(d) for scale = 10^d: the nearest multiple of 1/scale, a
\* tie going away from zero.
DivToFixed(a, b, scale) ==
    IF b = 0
    THEN IF a = 0 THEN <<"NaN">> ELSE IF a > 0 THEN <<"Infinity">> ELSE <<"-Infinity">>
    ELSE LET n == (2 * scale * Abs(a) + Abs(b)) \div (2 * Abs(b))
         IN <<"num", IF (a < 0) # (b < 0) THEN -n ELSE n>>

RECURSIVE sort(_)
\* Object.keys(...).sort() on minute keys.
sort(keys) ==
    IF keys = {} THEN <<>>
    ELSE LET first == CHOOSE k \in keys : \A j \in keys : k <= j
         IN <<first>> \o sort(keys \ {first})

RECURSIVE ProcessingFold(_, _)
\* processingTimes.forEach: the running total, minimum and maximum.
ProcessingFold(times, acc) ==
    IF times = <<>> THEN acc
    ELSE LET t == Head(times).processingTimeMs
         IN ProcessingFold(Tail(times),
                [total |-> acc.total + t, min |-> Min(acc.min, t), max |-> Max(acc.max, t)])

ProcessingStats(times) ==
    ProcessingFold(times, [total |-> 0, min |-> MAX_SAFE_INTEGER, max |-> 0])

avgProcessingTime(times) ==
    IF Len(times) > 0
    THEN DivToFixed(ProcessingStats(times).total, Len(times), 100)
    ELSE DivToFixed(0, 1, 100)

RECURSIVE PeakFoldLastMaximum(_, _, _)
\* Faulty variant of PeakFold: `>=` for `>`, so a later bucket with the same
\* count replaces the peak.
PeakFoldLastMaximum(sortedIntervals, intervals, acc) ==
    IF sortedIntervals = <<>> THEN acc
    ELSE LET interval == Head(sortedIntervals)
         IN PeakFoldLastMaximum(Tail(sortedIntervals), intervals,
                IF intervals[interval].messages >= acc.peakMessages
                THEN [peakMessages |-> intervals[interval].messages,
                      peakInterval |-> Some(interval)]
                ELSE acc)

RECURSIVE PeakFold(_, _, _)
\* sortedIntervals.forEach: a bucket replaces the peak only when strictly larger.
PeakFold(sortedIntervals, intervals, acc) ==
    IF sortedIntervals = <<>> THEN acc
    ELSE LET interval == Head(sortedIntervals)
         IN PeakFold(Tail(sortedIntervals), intervals,
                IF intervals[interval].messages > acc.peakMessages
                THEN [peakMessages |-> intervals[interval].messages,
                      peakInterval |-> Some(interval)]
                ELSE acc)

\* peakInterval starts as the empty string, modelled by None.
Peak(intervals) ==
    PeakFold(sort(DOMAIN intervals), intervals, [peakMessages |-> 0, peakInterval |-> None])

\* Faulty variant of successRate: the rate is capped at 100 percent.
successRateCapped(m) ==
    IF m.messagesSent > 0
    THEN DivToFixed(Min(m.storeOperations, m.messagesSent) * 100, m.messagesSent, 100)
    ELSE DivToFixed(0, 1, 100)

\* successRate.toFixed(2), in hundredths of a percent.
successRate(m) ==
    IF m.messagesSent > 0
    THEN DivToFixed(m.storeOperations * 100, m.messagesSent, 100)
    ELSE DivToFixed(0, 1, 100)

messageDistribution(m) ==
    [wabaNumber \in DOMAIN m.wabaMessageMap |->
        LET data == m.wabaMessageMap[wabaNumber]
        IN [messages |-> data.count,
            uniqueMessageIds |-> Cardinality(data.messageIds),
            uniqueWamids |-> Cardinality(data.wamids),
            percentOfTotal |-> DivToFixed(data.count * 100, m.messagesSent, 100)]]

cacheMetrics(m) ==
    [hits |-> m.cacheHits,
     hitsPerWabaNumber |-> DivToFixed(m.cacheHits, Cardinality(m.uniqueWabaNumbers), 100)]

processing(m) ==
    [avgTimeMs |-> avgProcessingTime(m.processingTimes),
     minTimeMs |-> IF Len(m.processingTimes) # 0
                   THEN <<"num", ProcessingStats(m.processingTimes).min>> ELSE <<"N/A">>,
     maxTimeMs |-> IF Len(m.processingTimes) # 0
                   THEN <<"num", ProcessingStats(m.processingTimes).max>> ELSE <<"N/A">>,
     measuredMessages |-> Len(m.processingTimes)]

throughput(m) ==
    LET sortedIntervals == sort(DOMAIN m.timeIntervals)
    IN [peakMessagesPerMinute |-> Peak(m.timeIntervals).peakMessages,
        peakInterval |-> Peak(m.timeIntervals).peakInterval,
        intervals |-> [i \in 1..Len(sortedIntervals) |->
            [timeWindow |-> sortedIntervals[i],
             messages |-> m.timeIntervals[sortedIntervals[i]].messages,
             cacheHits |-> m.timeIntervals[sortedIntervals[i]].cacheHits,
             jobs |-> m.timeIntervals[sortedIntervals[i]].jobs,
             stores |-> m.timeIntervals[sortedIntervals[i]].stores]]]

\* The object calculateMetrics returns once the timestamp bounds are known.
Report(m) ==
    LET durationMs == m.endTime[1] - m.startTime[1]
    IN [startTime |-> m.startTime[1],
        endTime |-> m.endTime[1],
        duration |-> [milliseconds |-> durationMs,
                      seconds |-> DivToFixed(durationMs, 1000, 100),
                      minutes |-> DivToFixed(durationMs, 60000, 100)],
        messages |-> [total |-> m.messagesSent,
                      perSecond |-> DivToFixed(m.messagesSent * 1000, durationMs, 100),
                      successRate |-> successRate(m)],
        jobs |-> [total |-> m.completedJobs,
                  unique |-> Cardinality(m.jobIds),
                  perSecond |-> DivToFixed(m.completedJobs * 1000, durationMs, 100)],
        wabaNumbers |-> [list |-> m.uniqueWabaNumbers,
                         count |-> Cardinality(m.uniqueWabaNumbers),
                         messageDistribution |-> messageDistribution(m)],
        cacheMetrics |-> cacheMetrics(m),
        storeOperations |-> m.storeOperations,
        messageIds |-> [unique |-> Cardinality(m.messageIds),
                        ratio |-> DivToFixed(Cardinality(m.messageIds), m.messagesSent, 10000)],
        wamids |-> [unique |-> Cardinality(m.wamids),
                    ratio |-> DivToFixed(Cardinality(m.wamids), m.messagesSent, 10000)],
        processing |-> processing(m),
        throughput |-> throughput(m),
        logLevels |-> m.logLevels,
        errors |-> m.errors,
        warnings |-> m.warnings]

-----------------------------------------------------------------------------
(* The run.                                                                *)

NoTimestamps == "No valid timestamps found in log."

\* Faulty variant of Artifacts: the console summary is printed for every
\* format but html.
ArtifactsConsoleUnlessHtml(format) ==
    (IF format = "json" \/ format = "all" THEN {"json"} ELSE {})
    \cup (IF format # "html" THEN {"console"} ELSE {})
    \cup (IF format = "html" \/ format = "all" THEN {"html"} ELSE {})

\* The artifacts the output stage writes for a format.
Artifacts(format) ==
    (IF format = "json" \/ format = "all" THEN {"json"} ELSE {})
    \cup (IF format = "console" \/ format = "all" THEN {"console"} ELSE {})
    \cup (IF format = "html" \/ format = "all" THEN {"html"} ELSE {})

Init ==
    /\ args \in ArgTails
    /\ outputFormat = OutputFormat(args)
    /\ current = None
    /\ metrics = InitialMetrics
    /\ pc = "reading"
    /\ finalMetrics = None
    /\ written = {}
    /\ stderr = <<>>
    /\ exitCode = None
    /\ fileRead = <<>>

\* One iteration of the line loop.
ProcessLine ==
    /\ pc = "reading"
    /\ Len(fileRead) < MaxLines
    /\ \E line \in Lines :
         /\ current' = Some(line)
         /\ metrics' = FoldLine(metrics, line)
         /\ fileRead' = Append(fileRead, <<line.format, line.envelope>>)
    /\ UNCHANGED <<args, outputFormat, pc, finalMetrics, written, stderr, exitCode>>

\* Faulty variant of CalculateMetrics: the error is printed but the process
\* does not exit, and the output stage runs on an empty report.
CalculateMetricsNoExit ==
    /\ pc = "reading"
    /\ IF metrics.startTime = None \/ metrics.endTime = None
       THEN /\ stderr' = Append(stderr, NoTimestamps)
            /\ pc' = "output"
            /\ UNCHANGED <<finalMetrics, exitCode>>
       ELSE /\ finalMetrics' = Some(Report(metrics))
            /\ pc' = "output"
            /\ UNCHANGED <<stderr, exitCode>>
    /\ UNCHANGED <<args, outputFormat, current, metrics, written, fileRead>>

\* End of the stream: calculateMetrics, which exits when no log-level line
\* ever set the bounds.
CalculateMetrics ==
    /\ pc = "reading"
    /\ IF metrics.startTime = None \/ metrics.endTime = None
       THEN /\ stderr' = Append(stderr, NoTimestamps)
            /\ exitCode' = Some(1)
            /\ pc' = "exited"
            /\ UNCHANGED finalMetrics
       ELSE /\ finalMetrics' = Some(Report(metrics))
            /\ pc' = "output"
            /\ UNCHANGED <<stderr, exitCode>>
    /\ UNCHANGED <<args, outputFormat, current, metrics, written, fileRead>>

\* The three `if (outputFormat === ...)` blocks, then the process ends.
Output ==
    /\ pc = "output"
    /\ written' = written \cup Artifacts(outputFormat)
    /\ exitCode' = Some(0)
    /\ pc' = "done"
    /\ UNCHANGED <<args, outputFormat, current, metrics, finalMetrics, stderr, fileRead>>

Next == ProcessLine \/ CalculateMetrics \/ Output

Spec == Init /\ [][Next]_vars

-----------------------------------------------------------------------------
(* Properties.                                                             *)

RECURSIVE SumOver(_, _)
\* The sum of f[k] over a finite set of keys.
SumOver(keys, f) ==
    IF keys = {} THEN 0
    ELSE LET k == CHOOSE x \in keys : TRUE
         IN f[k] + SumOver(keys \ {k}, f)

Reported == finalMetrics # None

report == finalMetrics[1]

AllArtifacts == {"json", "console", "html"}

\* A ProcessLine step: one more line has been read.
LineStep == Len(fileRead') = Len(fileRead) + 1

\* C1: in every report, the message counts of the time buckets of
\* throughput.intervals add up to messages.total, whatever the lines were
\* (each bucket key being a minute, the truncation of a line timestamp).
C1_BucketsSumToTotal ==
    Reported =>
        LET intervals == report.throughput.intervals
        IN SumOver(DOMAIN intervals, [i \in DOMAIN intervals |-> intervals[i].messages])
               = report.messages.total

\* Whether the store branch of `l`, run on accumulator m, finds a pending
\* entry for the line's transport id (the message branch of the same line
\* runs first).
PendingAtStore(m, l) == Has(MessageBranch(m, l).messagesToStore, l.store[1].wamid)

\* C2 as claimed: a MessageStored line always increments storeOperations;
\* when its transport id is pending it appends exactly one processing-time
\* record and removes the pending entry; when it is not pending it appends
\* none; and a store that directly follows a store of the same transport id,
\* with no send in between, appends none.
C2_ExactlyOneRecordPerMatchedStore ==
    [][ (LineStep /\ current'[1].store # None) =>
          LET l == current'[1]
              wamid == l.store[1].wamid
              before == Len(metrics.processingTimes)
              after == Len(metrics'.processingTimes)
          IN /\ metrics'.storeOperations = metrics.storeOperations + 1
             /\ IF PendingAtStore(metrics, l)
                THEN after = before + 1 /\ ~Has(metrics'.messagesToStore, wamid)
                ELSE after = before
             /\ ( /\ current # None
                  /\ current[1].store # None
                  /\ current[1].store[1].wamid = wamid
                  /\ (l.msg = None \/ l.msg[1].wamid # wamid) ) => after = before
      ]_vars

\* C2 amended: as claimed, except that the matched store appends its one
\* record only when both the send line and the store line carry a timestamp;
\* when either has none it appends no record.  The pending entry is removed
\* either way.
C2_OneRecordWhenBothTimestamped ==
    [][ (LineStep /\ current'[1].store # None) =>
          LET l == current'[1]
              wamid == l.store[1].wamid
              before == Len(metrics.processingTimes)
              after == Len(metrics'.processingTimes)
              pendingEntry == MessageBranch(metrics, l).messagesToStore[wamid]
          IN /\ metrics'.storeOperations = metrics.storeOperations + 1
             /\ IF PendingAtStore(metrics, l)
                THEN /\ ~Has(metrics'.messagesToStore, wamid)
                     /\ IF pendingEntry.sentTimestamp # None /\ l.ts # None
                        THEN /\ after = before + 1
                             /\ metrics'.processingTimes[after].wamid = wamid
                        ELSE after = before
                ELSE after = before
             /\ ( /\ current # None
                  /\ current[1].store # None
                  /\ current[1].store[1].wamid = wamid
                  /\ (l.msg = None \/ l.msg[1].wamid # wamid) ) => after = before
      ]_vars

\* C2 witness: a send, its store, and a second store of the same transport id
\* have been read: one record, two store operations, nothing pending.
C2_Witness ==
    /\ metrics.messagesSent = 1
    /\ metrics.storeOperations = 2
    /\ Len(metrics.processingTimes) = 1
    /\ DOMAIN metrics.messagesToStore = {}
    /\ current # None /\ current[1].store # None /\ current[1].msg = None
    /\ current[1].store[1].wamid = metrics.processingTimes[1].wamid

\* C3: when no line set the timestamp bounds, the run ends by reporting the
\* no-timestamps error with exit status 1, computes no report and writes no
\* artifact; and no artifact is ever written without the bounds being set.
C3_NoTimestampsIsFatal ==
    /\ (pc # "reading" /\ metrics.startTime = None) =>
          /\ pc = "exited"
          /\ exitCode = Some(1)
          /\ stderr = <<NoTimestamps>>
          /\ written = {}
          /\ ~Reported
    /\ written # {} => (metrics.startTime # None /\ Reported)

\* C3 witness: a run of lines carrying events but no log level has ended.
C3_Witness ==
    /\ pc = "exited"
    /\ Len(fileRead) >= 2
    /\ metrics.messagesSent >= 1
    /\ metrics.startTime = None

ScenarioC == << <<"badjson", None>>, <<"json", Some("error")>> >>

ParseErrorReported == \E i \in 1..Len(stderr) : stderr[i] # NoTimestamps

\* C4: once the file of one malformed JSON line followed by one JSON envelope
\* of level "error" has been read to its end, the run has not aborted, a parse
\* error has been reported, and the report has logLevels.error = 1 and one
\* error record.
C4_ScenarioC ==
    (fileRead = ScenarioC /\ pc # "reading") =>
        /\ pc # "exited"
        /\ Reported
        /\ ParseErrorReported
        /\ Has(report.logLevels, "error")
        /\ report.logLevels["error"] = 1
        /\ Len(report.errors) = 1

\* C5: a finished run has written exactly the artifacts its --output value
\* selects: json, html, console alone, or all three for `all` and for no
\* flag; at no time is an artifact written that the value does not select.
C5_ArtifactsFollowFormat ==
    /\ pc = "done" =>
          /\ (args = <<>> => written = AllArtifacts)
          /\ (args = <<"--output", "all">> => written = AllArtifacts)
          /\ (args = <<"--output", "json">> => written = {"json"})
          /\ (args = <<"--output", "html">> => written = {"html"})
          /\ (args = <<"--output", "console">> => written = {"console"})
    /\ \A a \in written : outputFormat = a \/ outputFormat = "all"

\* C5 witness: a run with --output json has finished.
C5_Witness == pc = "done" /\ args = <<"--output", "json">> /\ written = {"json"}

\* C6: once a message has been sent, the per-WABA occurrence counts add up to
\* messagesSent; in the report the per-WABA message counts add up to
\* messages.total, so the exact percentages add up to 100 and the reported,
\* rounded ones (hundredths of a percent, each within half a hundredth) add up
\* to 100 within half a hundredth per WABA number.
C6_WabaCountsSumToSent ==
    /\ metrics.messagesSent > 0 =>
          /\ DOMAIN metrics.wabaMessageMap # {}
          /\ SumOver(DOMAIN metrics.wabaMessageMap,
                     [w \in DOMAIN metrics.wabaMessageMap |-> metrics.wabaMessageMap[w].count])
                 = metrics.messagesSent
    /\ (Reported /\ report.messages.total > 0) =>
          LET dist == report.wabaNumbers.messageDistribution
              counts == SumOver(DOMAIN dist, [w \in DOMAIN dist |-> dist[w].messages])
              percents == SumOver(DOMAIN dist, [w \in DOMAIN dist |-> dist[w].percentOfTotal[2]])
          IN /\ counts = report.messages.total
             /\ \A w \in DOMAIN dist :
                   /\ dist[w].percentOfTotal[1] = "num"
                   /\ 2 * Abs(dist[w].percentOfTotal[2] * report.messages.total
                              - 10000 * dist[w].messages) <= report.messages.total
             /\ 2 * Abs(percents - 10000) <= Cardinality(DOMAIN dist)

\* C6 witness: a report over two WABA numbers with unequal shares.
C6_Witness ==
    /\ Reported
    /\ report.messages.total = 3
    /\ Cardinality(DOMAIN report.wabaNumbers.messageDistribution) = 2

\* C7: a report with no processing-time record shows none of avgTimeMs,
\* minTimeMs, maxTimeMs as a zero value.
C7_NoDataIsNotZero ==
    (Reported /\ report.processing.measuredMessages = 0) =>
        /\ report.processing.avgTimeMs # <<"num", 0>>
        /\ report.processing.minTimeMs # <<"num", 0>>
        /\ report.processing.maxTimeMs # <<"num", 0>>

\* C8: hitsPerWabaNumber is cacheHits divided by the number of unique WABA
\* numbers (to two decimals), and is 0 when there is no WABA number.
C8_CacheDensityZeroGuarded ==
    Reported =>
        LET density == report.cacheMetrics.hitsPerWabaNumber
            count == report.wabaNumbers.count
        IN /\ density[1] = "num"
           /\ IF count = 0
              THEN density[2] = 0
              ELSE 2 * Abs(density[2] * count - 100 * report.cacheMetrics.hits) <= count

\* C9: the reported success rate (hundredths of a percent) is
\* storeOperations / messagesSent * 100 to two decimals when messagesSent > 0
\* and exactly 0 when messagesSent = 0; it is never negative, and it exceeds
\* 100 exactly when there are more stores than sends.
C9_SuccessRate ==
    Reported =>
        LET rate == report.messages.successRate
        IN /\ rate[1] = "num"
           /\ rate[2] >= 0
           /\ IF metrics.messagesSent > 0
              THEN /\ 2 * Abs(rate[2] * metrics.messagesSent - 10000 * metrics.storeOperations)
                          <= metrics.messagesSent
                   /\ (metrics.storeOperations > metrics.messagesSent <=> rate[2] > 10000)
              ELSE rate[2] = 0

\* C9 witness: a report with two stores for one send, a rate of 200 percent.
C9_Witness ==
    /\ Reported
    /\ metrics.messagesSent = 1
    /\ metrics.storeOperations = 2
    /\ report.messages.successRate = <<"num", 20000>>

\* The largest message count of a bucket, and the first bucket that has it.
MaxMessages(intervals) ==
    CHOOSE n \in {intervals[k].messages : k \in DOMAIN intervals} :
        \A k \in DOMAIN intervals : intervals[k].messages <= n

FirstWithMax(intervals) ==
    CHOOSE k \in DOMAIN intervals :
        /\ intervals[k].messages = MaxMessages(intervals)
        /\ \A j \in DOMAIN intervals :
              intervals[j].messages = MaxMessages(intervals) => k <= j

\* C10 as claimed: the report's peak is the largest message count of a bucket
\* and peakInterval is the first bucket, in key order, that has it.
C10_PeakIsFirstMaximum ==
    Reported =>
        /\ report.throughput.peakMessagesPerMinute = MaxMessages(metrics.timeIntervals)
        /\ report.throughput.peakInterval = Some(FirstWithMax(metrics.timeIntervals))

\* C10 amended: as claimed when some bucket counted a message; when every
\* bucket has a message count of 0, peakMessagesPerMinute is 0 and
\* peakInterval is the empty string, naming no bucket.
C10_PeakIsFirstPositiveMaximum ==
    Reported =>
        /\ DOMAIN metrics.timeIntervals # {}
        /\ report.throughput.peakMessagesPerMinute = MaxMessages(metrics.timeIntervals)
        /\ IF MaxMessages(metrics.timeIntervals) > 0
           THEN report.throughput.peakInterval = Some(FirstWithMax(metrics.timeIntervals))
           ELSE report.throughput.peakInterval = None

\* C10 witness: two buckets share the maximum of one message and the report
\* names the earlier one.
C10_Witness ==
    /\ Reported
    /\ DOMAIN metrics.timeIntervals = {0, 1}
    /\ metrics.timeIntervals[0].messages = 1
    /\ metrics.timeIntervals[1].messages = 1
    /\ report.throughput.peakInterval = Some(0)

\* Whether line l sends, or stores, transport id w.
Sends(l, w) == l.msg # None /\ l.msg[1].wamid = w
Stores(l, w) == l.store # None /\ l.store[1].wamid = w

\* C11: a MessageSent line leaves, for its transport id, the one pending entry
\* of that line (its WABA number, message id and timestamp), replacing an
\* earlier entry without adding a key; a MessageStored line that finds the
\* entry appends one record whose elapsed time is counted from that entry; so
\* a timestamped store that directly follows a timestamped send of the same
\* transport id appends exactly one record with elapsed = store time - time of
\* that latest send, whatever sends came before.
C11_LatestSendWins ==
    [][ LineStep =>
          LET l == current'[1]
              before == Len(metrics.processingTimes)
              after == Len(metrics'.processingTimes)
          IN /\ after <= before + 1
             /\ \A w \in metrics.wamids \cup metrics'.wamids :
                   /\ (Sends(l, w) /\ ~Stores(l, w)) =>
                         /\ Has(metrics'.messagesToStore, w)
                         /\ metrics'.messagesToStore[w] =
                               [wabaNumber |-> l.msg[1].wabaNumber,
                                msgId |-> l.msg[1].msgId,
                                sentTimestamp |-> l.ts]
                         /\ DOMAIN metrics'.messagesToStore
                               = DOMAIN metrics.messagesToStore \cup {w}
                   /\ ( /\ Stores(l, w) /\ ~Sends(l, w)
                        /\ Has(metrics.messagesToStore, w)
                        /\ metrics.messagesToStore[w].sentTimestamp # None
                        /\ l.ts # None ) =>
                         /\ after = before + 1
                         /\ metrics'.processingTimes[after].wamid = w
                         /\ metrics'.processingTimes[after].processingTimeMs
                               = 1000 * (l.ts[1] - metrics.messagesToStore[w].sentTimestamp[1])
                   /\ ( /\ Stores(l, w) /\ ~Sends(l, w) /\ l.ts # None
                        /\ current # None
                        /\ Sends(current[1], w) /\ ~Stores(current[1], w)
                        /\ current[1].ts # None ) =>
                         /\ after = before + 1
                         /\ metrics'.processingTimes[after].processingTimeMs
                               = 1000 * (l.ts[1] - current[1].ts[1])
      ]_vars

\* C11 witness: send at 0, send at 30 and store at 60 of transport id "a" have
\* been read, in that order: one record, of 30 seconds, and nothing pending.
C11_Witness ==
    /\ Len(fileRead) = 3
    /\ metrics.messagesSent = 2
    /\ metrics.wamids = {"a"}
    /\ metrics.messageIds = {"M1", "M2"}
    /\ metrics.storeOperations = 1
    /\ metrics.endTime = Some(60000)
    /\ current # None /\ Stores(current[1], "a") /\ current[1].ts = Some(60)
    /\ Len(metrics.processingTimes) = 1
    /\ metrics.processingTimes[1].processingTimeMs = 30000
    /\ DOMAIN metrics.messagesToStore = {}

\* The elapsed values of the recorded processing times.
Elapsed == {metrics.processingTimes[i].processingTimeMs : i \in 1..Len(metrics.processingTimes)}

\* C12: a report over at least one processing-time record shows as minTimeMs
\* the smallest and as maxTimeMs the largest recorded elapsed value, negative
\* values included.
C12_MinMaxOfRecorded ==
    (Reported /\ Len(metrics.processingTimes) > 0) =>
        /\ report.processing.minTimeMs[1] = "num"
        /\ report.processing.maxTimeMs[1] = "num"
        /\ report.processing.minTimeMs[2] \in Elapsed
        /\ report.processing.maxTimeMs[2] \in Elapsed
        /\ \A e \in Elapsed :
              report.processing.minTimeMs[2] <= e /\ e <= report.processing.maxTimeMs[2]

\* C13: at most as many processing-time records as store operations and as
\* messages sent; every pending transport id is in the wamids set; and no line
\* makes completedJobs, messagesSent, storeOperations or cacheHits smaller.
C13_AccumulatorInvariant ==
    /\ [](/\ Len(metrics.processingTimes) <= metrics.storeOperations
          /\ Len(metrics.processingTimes) <= metrics.messagesSent
          /\ DOMAIN metrics.messagesToStore \subseteq metrics.wamids)
    /\ [][ /\ metrics'.completedJobs >= metrics.completedJobs
           /\ metrics'.messagesSent >= metrics.messagesSent
           /\ metrics'.storeOperations >= metrics.storeOperations
           /\ metrics'.cacheHits >= metrics.cacheHits ]_vars

\* C13 witness: jobs, sends, stores and cache hits have all been counted, one
\* send has been matched and another is still pending.
C13_Witness ==
    /\ metrics.completedJobs > 0
    /\ metrics.cacheHits > 0
    /\ metrics.messagesSent = 2
    /\ metrics.storeOperations = 1
    /\ Len(metrics.processingTimes) = 1
    /\ DOMAIN metrics.messagesToStore # {}

====
